---------------------------- MODULE Spec2Model ----------------------------
(***************************************************************************)
(* Secure Tasks (js-secured-spa): the task application (app.js, ui.js,     *)
(* storage.js) and its three runtime detectors (antiDebug.js, domGuard.js, *)
(* selfDefend.js) as one state machine.                                    *)
(*                                                                         *)
(* The browser is single threaded: every handler (a DOM event listener, a  *)
(* setInterval callback, the DOMContentLoaded listener) runs to completion,*)
(* so each handler is one action.  A detector's callback runs inside the   *)
(* trigger routine, inside the poll, inside the handler: all of it is the  *)
(* same step.                                                              *)
(***************************************************************************)
EXTENDS Integers, Sequences, FiniteSets, TLC

VARIABLES
    phase,        \* "loading" before DOMContentLoaded, "ready" after init()
    tasks,        \* app.js: let tasks
    currentFilter,\* app.js: let currentFilter
    storage,      \* localStorage['secureTasks_v1']: absent, or what the text parses to
    dom,          \* the page: elements present, rendered list, message, disabled flags
    timers,       \* the browser's live setInterval ids
    ad,           \* closure state of startAntiDebug
    dg,           \* closure state of startDomGuard
    sd,           \* closure state of startSelfDefend
    info,         \* window.__selfDefendInfo
    lockCalls,    \* number of times lockApp has run (its console.warn lines)
    polled,       \* the detector whose runCheck(s) the last timer tick ran ("-threw"
                  \* appended when that run ended in its catch block), "" if none
    failing,      \* the calls that throw at present: see Faults
    hashIn,       \* simpleHash harness: the text handed to simpleHash
    hashOut,      \* simpleHash harness: the value returned, <<>> before the call
    probeIn,      \* function harness: the arguments handed to the function under study
    probeOut      \* function harness: what it returned, <<>> before the call

vars == <<phase, tasks, currentFilter, storage, dom, timers, ad, dg, sd, info,
          lockCalls, polled, failing, hashIn, hashOut, probeIn, probeOut>>

appVars == <<phase, tasks, currentFilter, storage, dom, timers, ad, dg, sd, info,
             lockCalls, polled, failing>>

hashVars == <<hashIn, hashOut>>

probeVars == <<probeIn, probeOut>>

\* what no handler of the application writes
restVars == <<failing, hashVars, probeVars>>

-----------------------------------------------------------------------------
(* Bounds of the model *)

\* at most this many tasks are held at once
MaxTasks == 2

\* simpleHash harness: texts of up to this many characters
MaxLen == 4

\* isTampered harness: every text length up to this one is tried
MaxTextLen == 12

\* isTampered harness: the text lengths tried, recorded and current
TextLens == 0..MaxTextLen \cup {50, 100}

\* isDevToolsOpenBySize harness: differences this far below and above the
\* threshold are tried, with 50 and 200
SizeMargin == 5

\* at most this many of the heuristics' calls throw at the same time
MaxFailing == 1

\* startDomGuard harness: configs list up to this many selectors
MaxSelectors == 3

\* simpleHash loop harness: how far below 2^32 the running value stands when
\* the last characters of a long text arrive
WrapGaps == {1, 98, 197, 300}

\* character codes of the bounded alphabet ("a", "b", "c")
Alphabet == {97, 98, 99}

\* what the user types into #task-title and #task-desc, as the lengths of the
\* trimmed values: nothing, a short title alone, a long title and a description
FormInputs ==
    {[titleLen |-> 0, descLen |-> 0],
     [titleLen |-> 1, descLen |-> 0],
     [titleLen |-> 12, descLen |-> 3]}

\* window.outerWidth - window.innerWidth, window.outerHeight - window.innerHeight
SizeDiffs == {50, 160, 200}

\* milliseconds measured around the debugger statement
PauseDeltas == {0, 100, 150}

\* Calls that can throw, by what the environment does to them:
\* localStorage.setItem (quota reached, storage denied), the reads of
\* isDevToolsOpenBySize and isDevToolsOpenByTiming (window or performance
\* patched), the DOM queries of isTampered, currentFn.toString()
StorageFaults == {"setItem"}

HeuristicFaults == {"isDevToolsOpenBySize", "isDevToolsOpenByTiming", "isTampered", "toString"}

\* Calls of lockApp that can throw: setSecurityMessage (its first statement)
\* and document.querySelectorAll('button') (after the message is shown and
\* the form is styled).  A callback that throws is any callback a detector
\* was handed while one of them throws.
CallbackFaults == {"setSecurityMessage", "querySelectorAll"}

\* the value of a timer handle that holds no timer
NULL == "null"

-----------------------------------------------------------------------------
(* Program constants *)

SIZE_THRESHOLD == 160

PAUSE_THRESHOLD == 100

TEXT_CHANGE_FACTOR == 3

\* 2^16: a 32-bit unsigned value is kept as two 16-bit halves
HalfWord == 65536

\* 'Delete'.length, the text of each rendered delete button
DeleteLen == 6

PROTECTED_SELECTORS == <<".app-main", "#task-form", ".task-filters", "#task-list">>

MsgTamper == "DOM tampering detected. App locked."

MsgIntegrity == "Integrity check failed. App locked."

Filters == {"all", "active", "completed"}

-----------------------------------------------------------------------------
(* Helpers *)

Max(a, b) == IF a >= b THEN a ELSE b

Min(a, b) == IF a <= b THEN a ELSE b

Range(s) == {s[i] : i \in 1..Len(s)}

RECURSIVE SumSeq(_)
SumSeq(s) == IF s = <<>> THEN 0 ELSE Head(s) + SumSeq(Tail(s))

RECURSIVE SelectSeqBy(_, _)
\* s.filter(t => t.completed = c)
SelectSeqBy(s, c) ==
    IF s = <<>> THEN <<>>
    ELSE IF Head(s).completed = c
         THEN <<Head(s)>> \o SelectSeqBy(Tail(s), c)
         ELSE SelectSeqBy(Tail(s), c)

\* all texts over Alphabet of length 0..n
TextsUpTo(n) == UNION {[1..k -> Alphabet] : k \in 0..n}

-----------------------------------------------------------------------------
(* storage.js *)

\* The stored value: kind "absent" (no such key), "corrupt" (text JSON.parse
\* rejects), "other" (JSON that is no array) or "array" (val: the task list).
StoredArray(ts) == [kind |-> "array", val |-> ts]

NotAList == {[kind |-> k, val |-> <<>>] : k \in {"absent", "corrupt", "other"}}

\* !raw, a JSON.parse that throws and a value that is no array all give []
loadTasks(raw) == IF raw.kind = "array" THEN raw.val ELSE <<>>

\* saveTasks that never reaches localStorage
saveTasksDropped(raw, ts, broken) == raw

\* localStorage.setItem(STORAGE_KEY, JSON.stringify(tasks)) inside try/catch:
\* when setItem throws, the stored value (raw) stays and the error is logged
saveTasks(raw, ts, broken) == IF "setItem" \in broken THEN raw ELSE StoredArray(ts)

-----------------------------------------------------------------------------
(* The page (index.html) and ui.js *)

\* The text a protected element holds apart from the rendered task list:
\* headings, labels and button captions of index.html.  renderTasks empties
\* #task-list before it appends, so the list element has no text of its own.
StaticText(sel) ==
    CASE sel = ".app-main"     -> 90
      [] sel = "#task-form"    -> 30
      [] sel = ".task-filters" -> 18
      [] sel = "#task-list"    -> 0

\* the protected elements whose textContent includes the rendered list
ListContainers == {".app-main", "#task-list"}

\* the page as parsed from index.html, before any script has run
PageInit ==
    [present        |-> Range(PROTECTED_SELECTORS),
     items          |-> <<>>,
     emptyShown     |-> FALSE,
     message        |-> "",
     formLocked     |-> FALSE,
     addDisabled    |-> FALSE,
     filterDisabled |-> FALSE]

\* one <li>: checkbox, title <p>, optional description <p>, 'Delete' button
RenderItem(t) ==
    [id          |-> t.id,
     completed   |-> t.completed,
     textLen     |-> t.titleLen + (IF t.descLen > 0 THEN t.descLen ELSE 0) + DeleteLen,
     btnDisabled |-> FALSE]

renderTasks(d, ts, filter) ==
    IF "#task-list" \notin d.present THEN d
    ELSE LET filtered == IF filter = "active" THEN SelectSeqBy(ts, FALSE)
                         ELSE IF filter = "completed" THEN SelectSeqBy(ts, TRUE)
                         ELSE ts
         IN  [d EXCEPT !.items = [i \in 1..Len(filtered) |-> RenderItem(filtered[i])],
                       !.emptyShown = (Len(filtered) = 0)]

setSecurityMessage(d, text) == [d EXCEPT !.message = text]

\* (el.textContent || '').length
TextLength(d, sel) ==
    StaticText(sel)
    + (IF sel \in ListContainers
       THEN SumSeq([i \in 1..Len(d.items) |-> d.items[i].textLen])
       ELSE 0)

-----------------------------------------------------------------------------
(* app.js *)

lockApp(d, message) ==
    LET d1 == setSecurityMessage(d, message)
    IN  [d1 EXCEPT
            !.formLocked = IF "#task-form" \in d.present THEN TRUE ELSE @,
            !.addDisabled = TRUE,
            !.filterDisabled = TRUE,
            !.items = [i \in 1..Len(d.items) |-> [d.items[i] EXCEPT !.btnDisabled = TRUE]]]

CallbackThrows(broken) == broken \cap CallbackFaults # {}

\* the page lockApp leaves, also when one of its calls throws
lockAppUnder(d, message, broken) ==
    IF "setSecurityMessage" \in broken THEN d
    ELSE IF "querySelectorAll" \in broken
         THEN [setSecurityMessage(d, message) EXCEPT
                  !.formLocked = IF "#task-form" \in d.present THEN TRUE ELSE @]
         ELSE lockApp(d, message)

\* runs of lockApp that reached their end, of n calls
Completed(n, broken) == IF CallbackThrows(broken) THEN 0 ELSE n

\* the catch block of a runCheck(s): an exception of the callback lands in it
\* as well, after the trigger routine has set the flag and cleared the timer
Caught(old, new, broken) ==
    IF CallbackThrows(broken) /\ new.calls > old.calls
    THEN [new EXCEPT !.threw = TRUE]
    ELSE new

\* an id no task holds (crypto.randomUUID)
FreshId(ts) == CHOOSE n \in 1..(MaxTasks + 1) : \A i \in 1..Len(ts) : ts[i].id # n

createTask(ts, titleLen, descLen) ==
    [id |-> FreshId(ts), titleLen |-> titleLen, descLen |-> descLen, completed |-> FALSE]

-----------------------------------------------------------------------------
(* Timers: setInterval / clearInterval *)

\* a trigger routine that clears every timer of the page
AfterClearAll(tm, old, new) ==
    IF old.intervalId # NULL /\ new.intervalId = NULL
    THEN {}
    ELSE tm

\* the live timers after a trigger routine ran: clearInterval(intervalId)
\* is called exactly when the handle went from an id to null
AfterClear(tm, old, new) ==
    IF old.intervalId # NULL /\ new.intervalId = NULL
    THEN tm \ {old.intervalId}
    ELSE tm

-----------------------------------------------------------------------------
(* security/antiDebug.js *)

\* the size heuristic with >= in place of >
isDevToolsOpenBySizeInclusive(widthDiff, heightDiff) ==
    widthDiff >= SIZE_THRESHOLD \/ heightDiff >= SIZE_THRESHOLD

isDevToolsOpenBySize(widthDiff, heightDiff) ==
    widthDiff > SIZE_THRESHOLD \/ heightDiff > SIZE_THRESHOLD

isDevToolsOpenByTiming(delta) == delta > PAUSE_THRESHOLD

\* closure variables of a startAntiDebug call that has not happened yet
AdIdle ==
    [started |-> FALSE, cbIsFn |-> FALSE, already |-> FALSE, intervalId |-> NULL,
     calls |-> 0, trig |-> 0, reason |-> "", threw |-> FALSE, timingRun |-> FALSE,
     trigEnv |-> <<>>]

\* triggerDetection without its guard on alreadyDetected
triggerDetectionNoLatch(d, reason, reenter) ==
    LET once(x) == [x EXCEPT !.already = TRUE, !.trig = @ + 1, !.intervalId = NULL,
                             !.calls = IF x.cbIsFn THEN @ + 1 ELSE @,
                             !.reason = IF x.cbIsFn THEN reason ELSE @]
    IN  IF d.cbIsFn /\ reenter THEN once(once(d)) ELSE once(d)

\* calls: invocations of onDetected; trig: invocations of triggerDetection.
\* reenter: the callback makes the trigger routine run once more before it
\* returns.
RECURSIVE triggerDetection(_, _, _)
triggerDetection(d, reason, reenter) ==
    IF d.already THEN [d EXCEPT !.trig = @ + 1]
    ELSE LET d1 == [d EXCEPT !.already = TRUE, !.trig = @ + 1, !.intervalId = NULL]
         IN  IF d.cbIsFn
             THEN LET d2 == [d1 EXCEPT !.calls = @ + 1, !.reason = reason]
                  IN  IF reenter THEN triggerDetection(d2, reason, FALSE) ELSE d2
             ELSE d1

\* runChecks with the two heuristics in the other order
runChecksTimingFirst(d, widthDiff, heightDiff, delta, reenter, broken) ==
    LET d0 == [d EXCEPT !.timingRun = TRUE]
    IN  IF "isDevToolsOpenByTiming" \in broken THEN [d0 EXCEPT !.threw = TRUE]
        ELSE IF isDevToolsOpenByTiming(delta)
             THEN triggerDetection(d0, "timing-debugger-heuristic", reenter)
             ELSE IF "isDevToolsOpenBySize" \in broken THEN [d0 EXCEPT !.threw = TRUE]
                  ELSE IF isDevToolsOpenBySize(widthDiff, heightDiff)
                       THEN triggerDetection(d0, "window-size-heuristic", reenter)
                       ELSE d0

\* runChecks whose catch block reports a detection
runChecksErrorDetects(d, widthDiff, heightDiff, delta, reenter, broken) ==
    LET d0 == [d EXCEPT !.timingRun = FALSE]
    IN  IF "isDevToolsOpenBySize" \in broken
        THEN triggerDetection([d0 EXCEPT !.threw = TRUE], "error", reenter)
        ELSE IF isDevToolsOpenBySize(widthDiff, heightDiff)
             THEN triggerDetection(d0, "window-size-heuristic", reenter)
             ELSE LET d1 == [d0 EXCEPT !.timingRun = TRUE]
                  IN  IF "isDevToolsOpenByTiming" \in broken
                      THEN triggerDetection([d1 EXCEPT !.threw = TRUE], "error", reenter)
                      ELSE IF isDevToolsOpenByTiming(delta)
                           THEN triggerDetection(d1, "timing-debugger-heuristic", reenter)
                           ELSE d1

\* try { size heuristic; timing heuristic } catch { console.warn }.
\* timingRun: this run reached the debugger statement; threw: the catch
\* block has logged an error, in this run or an earlier one.
runChecks(d, widthDiff, heightDiff, delta, reenter, broken) ==
    LET d0 == [d EXCEPT !.timingRun = FALSE]
        \* a callback that throws does not get to run the trigger routine again
        re == reenter /\ ~CallbackThrows(broken)
    IN  IF "isDevToolsOpenBySize" \in broken THEN [d0 EXCEPT !.threw = TRUE]
        ELSE IF isDevToolsOpenBySize(widthDiff, heightDiff)
             THEN Caught(d0, triggerDetection(d0, "window-size-heuristic", re), broken)
             ELSE LET d1 == [d0 EXCEPT !.timingRun = TRUE]
                  IN  IF "isDevToolsOpenByTiming" \in broken THEN [d1 EXCEPT !.threw = TRUE]
                      ELSE IF isDevToolsOpenByTiming(delta)
                           THEN Caught(d1, triggerDetection(d1, "timing-debugger-heuristic", re),
                                       broken)
                           ELSE d1

\* whether that run of runChecks ends in its catch block
runChecksThrows(widthDiff, heightDiff, broken) ==
    \/ "isDevToolsOpenBySize" \in broken
    \/ /\ ~isDevToolsOpenBySize(widthDiff, heightDiff)
       /\ "isDevToolsOpenByTiming" \in broken

-----------------------------------------------------------------------------
(* security/domGuard.js *)

snapshotDom(d) ==
    [i \in 1..Len(PROTECTED_SELECTORS) |->
        LET selector == PROTECTED_SELECTORS[i]
        IN  [selector   |-> selector,
             exists     |-> selector \in d.present,
             textLength |-> IF selector \in d.present THEN TextLength(d, selector) ELSE 0]]

\* the comparison of isTampered with >= in place of >
RatioReaches(currentTextLength, textLength) ==
    LET maxLen == Max(1, textLength)
    IN  IF currentTextLength > maxLen
        THEN currentTextLength >= TEXT_CHANGE_FACTOR * maxLen
        ELSE maxLen >= TEXT_CHANGE_FACTOR * Max(1, currentTextLength)

\* ratio > TEXT_CHANGE_FACTOR, the quotient compared without dividing
RatioExceeds(currentTextLength, textLength) ==
    LET maxLen == Max(1, textLength)
    IN  IF currentTextLength > maxLen
        THEN currentTextLength > TEXT_CHANGE_FACTOR * maxLen
        ELSE maxLen > TEXT_CHANGE_FACTOR * Max(1, currentTextLength)

\* the loop body taking an element that appeared for tamper as well
ItemTamperedAnyChange(item, d) ==
    \/ item.exists # (item.selector \in d.present)
    \/ /\ item.exists
       /\ item.selector \in d.present
       /\ RatioExceeds(TextLength(d, item.selector), item.textLength)

\* the loop body without its test for an element that disappeared
ItemTamperedDriftOnly(item, d) ==
    /\ item.exists
    /\ item.selector \in d.present
    /\ RatioExceeds(TextLength(d, item.selector), item.textLength)

\* the body of the loop of isTampered for one snapshot entry
ItemTampered(item, d) ==
    \/ item.exists /\ item.selector \notin d.present
    \/ /\ item.exists
       /\ item.selector \in d.present
       /\ RatioExceeds(TextLength(d, item.selector), item.textLength)

isTampered(initialSnapshot, d) ==
    \E i \in 1..Len(initialSnapshot) : ItemTampered(initialSnapshot[i], d)

DgIdle ==
    [started |-> FALSE, already |-> FALSE, intervalId |-> NULL,
     calls |-> 0, trig |-> 0, reason |-> "", threw |-> FALSE, snapshot |-> <<>>]

\* onTamper is the function app.js passes: it is always called
triggerTamper(d, reason) ==
    IF d.already THEN [d EXCEPT !.trig = @ + 1]
    ELSE [d EXCEPT !.already = TRUE, !.trig = @ + 1, !.intervalId = NULL,
                   !.calls = @ + 1, !.reason = reason]

\* a poll that takes a callback's exception for a reason to try again
dgRunCheckRetry(d, page, broken) ==
    IF "isTampered" \in broken THEN [d EXCEPT !.threw = TRUE]
    ELSE IF isTampered(d.snapshot, page)
         THEN LET d1 == Caught(d, triggerTamper(d, "snapshot-mismatch"), broken)
              IN  IF CallbackThrows(broken)
                  THEN [d1 EXCEPT !.already = FALSE, !.intervalId = d.intervalId]
                  ELSE d1
         ELSE d

\* a poll that compares the page with a snapshot taken at the poll
dgRunCheckRolling(d, page, broken) ==
    IF "isTampered" \in broken THEN [d EXCEPT !.threw = TRUE]
    ELSE IF isTampered(snapshotDom(page), page) THEN triggerTamper(d, "snapshot-mismatch")
         ELSE d

\* try { if (isTampered(initialSnapshot)) triggerTamper(...) } catch { console.warn }
dgRunCheck(d, page, broken) ==
    IF "isTampered" \in broken THEN [d EXCEPT !.threw = TRUE]
    ELSE IF isTampered(d.snapshot, page)
         THEN Caught(d, triggerTamper(d, "snapshot-mismatch"), broken)
         ELSE d

\* startDomGuard({ onTamper }): the closure state when it returns.  Of the
\* config it is handed it reads onTamper alone.
startDomGuard(config, page, broken) ==
    LET dg0 == [DgIdle EXCEPT !.started = TRUE, !.snapshot = snapshotDom(page)]
        dg1 == dgRunCheck(dg0, page, broken)
    IN  [dg1 EXCEPT !.intervalId = "dgTimer"]

-----------------------------------------------------------------------------
(* security/selfDefend.js *)

\* the addition that lets the high half grow past 16 bits
AddU32Unbounded(hash, code) ==
    LET low == hash[2] + code
    IN  <<hash[1] + (low \div HalfWord), low % HalfWord>>

\* (hash + code) >>> 0 on a 32-bit unsigned value held as <<high, low>>
\* 16-bit halves; code is a UTF-16 code unit
AddU32(hash, code) ==
    LET low == hash[2] + code
    IN  <<(hash[1] + (low \div HalfWord)) % HalfWord, low % HalfWord>>

RECURSIVE HashFrom(_, _, _)
\* n rounds of the loop of simpleHash on str, entered with the running value hash
HashFrom(hash, str, n) ==
    IF n = 0 THEN hash ELSE AddU32(HashFrom(hash, str, n - 1), str[n])

\* the value of hash after n rounds of the loop of simpleHash
HashLoop(str, n) == HashFrom(<<0, 0>>, str, n)

\* simpleHash with the loop stopping one character early
simpleHashSkipLast(str) == HashLoop(str, Max(0, Len(str) - 1))

\* let hash = 0; for (i = 0; i < str.length; i++) hash = (hash + code) >>> 0
simpleHash(str) == HashLoop(str, Len(str))

\* checkIntegrity.toString(): the canary's source text, over the bounded alphabet
CanaryText == <<97, 98, 99>>

\* what external code stores in window.__selfDefendInfo.targetFn: the canary
\* again, a routine with the canary's characters reordered, another routine
Routines == {CanaryText, <<97, 99, 98>>, <<98, 98>>}

InfoUnset == [exists |-> FALSE, hasFn |-> FALSE, src |-> <<>>, originalHash |-> <<>>]

SdIdle ==
    [started |-> FALSE, already |-> FALSE, intervalId |-> NULL,
     calls |-> 0, trig |-> 0, reason |-> "", threw |-> FALSE, originalHash |-> <<>>]

triggerFail(d, reason) ==
    IF d.already THEN [d EXCEPT !.trig = @ + 1]
    ELSE [d EXCEPT !.already = TRUE, !.trig = @ + 1, !.intervalId = NULL,
                   !.calls = @ + 1, !.reason = reason]

\* the poll reading the routine captured at start instead of the handle
CurrentSourceCaptured(inf) == CanaryText

\* a missing routine read as an empty text, without the fallback
CurrentSourceNoFallback(inf) == IF inf.exists /\ inf.hasFn THEN inf.src ELSE <<>>

\* info?.targetFn || checkIntegrity, then toString()
CurrentSource(inf) == IF inf.exists /\ inf.hasFn THEN inf.src ELSE CanaryText

\* the poll comparing with the originalHash field of the handle
sdRunCheckExposedBaseline(d, inf, broken) ==
    IF "toString" \in broken THEN [d EXCEPT !.threw = TRUE]
    ELSE IF simpleHash(CurrentSource(inf)) #
              (IF inf.exists THEN inf.originalHash ELSE d.originalHash)
         THEN triggerFail(d, "function-source-changed")
         ELSE d

\* try { hash the current source; compare } catch { console.warn }
sdRunCheck(d, inf, broken) ==
    IF "toString" \in broken THEN [d EXCEPT !.threw = TRUE]
    ELSE IF simpleHash(CurrentSource(inf)) # d.originalHash
         THEN Caught(d, triggerFail(d, "function-source-changed"), broken)
         ELSE d

-----------------------------------------------------------------------------
(* Initial state: the page is parsed, no script has run *)

TaskShapes == {in \in FormInputs : in.titleLen > 0} \X BOOLEAN

MkTask(i, shape) ==
    [id |-> i, titleLen |-> shape[1].titleLen, descLen |-> shape[1].descLen,
     completed |-> shape[2]]

\* what an earlier visit, or anything else, may have left in localStorage
InitialStores ==
    NotAList \cup
    {StoredArray(ts) : ts \in
        UNION {{[i \in 1..n |-> MkTask(i, f[i])] : f \in [1..n -> TaskShapes]} : n \in 0..MaxTasks}}

HashIdle == hashIn = <<>> /\ hashOut = <<>>

ProbeIdle == probeIn = <<>> /\ probeOut = <<>>

Init ==
    /\ phase = "loading"
    /\ tasks = <<>>
    /\ currentFilter = "all"
    /\ storage \in InitialStores
    /\ dom = PageInit
    /\ timers = {}
    /\ ad = AdIdle
    /\ dg = DgIdle
    /\ sd = SdIdle
    /\ info = InfoUnset
    /\ lockCalls = 0
    /\ polled = ""
    /\ failing = {}
    /\ HashIdle
    /\ ProbeIdle

-----------------------------------------------------------------------------
(* app.js: init, the DOMContentLoaded listener *)

\* the callbacks init passes to the detectors
onTamper(d) == lockApp(d, MsgTamper)

onFail(d) == lockApp(d, MsgIntegrity)

\* the same callbacks while calls of lockApp may throw
onTamperUnder(d, broken) == lockAppUnder(d, MsgTamper, broken)

onFailUnder(d, broken) == lockAppUnder(d, MsgIntegrity, broken)

\* init starts DomGuard and SelfDefend; its call of startAntiDebug is
\* commented out
init ==
    /\ phase = "loading"
    /\ LET ts    == loadTasks(storage)
           page0 == renderTasks(dom, ts, currentFilter)
           \* startDomGuard({ onTamper: ... })
           dg2   == startDomGuard([selectors |-> <<>>], page0, failing)
           page1 == IF dg2.calls > 0 THEN onTamperUnder(page0, failing) ELSE page0
           \* startSelfDefend
           inf   == [exists |-> TRUE, hasFn |-> TRUE, src |-> CanaryText,
                     originalHash |-> simpleHash(CanaryText)]
           sd0   == [SdIdle EXCEPT !.started = TRUE, !.originalHash = simpleHash(CanaryText)]
           sd1   == sdRunCheck(sd0, inf, failing)
           page2 == IF sd1.calls > sd0.calls THEN onFailUnder(page1, failing) ELSE page1
           sd2   == [sd1 EXCEPT !.intervalId = "sdTimer"]
       IN  /\ tasks' = ts
           /\ dom' = page2
           /\ dg' = dg2
           /\ sd' = sd2
           /\ info' = inf
           /\ timers' = timers \cup {"dgTimer", "sdTimer"}
           /\ lockCalls' = lockCalls + Completed(dg2.calls + (sd1.calls - sd0.calls), failing)
    /\ phase' = "ready"
    /\ polled' = ""
    /\ UNCHANGED <<currentFilter, storage, ad, restVars>>

-----------------------------------------------------------------------------
(* app.js operations, reached through the listeners initUI installs *)

addTask(titleLen, descLen) ==
    LET ts == <<createTask(tasks, titleLen, descLen)>> \o tasks
    IN  /\ tasks' = ts
        /\ storage' = saveTasks(storage, ts, failing)
        /\ dom' = renderTasks(dom, ts, currentFilter)
        /\ UNCHANGED currentFilter

toggleTask(id) ==
    LET ts == [i \in 1..Len(tasks) |->
                 IF tasks[i].id = id
                 THEN [tasks[i] EXCEPT !.completed = ~tasks[i].completed]
                 ELSE tasks[i]]
    IN  /\ tasks' = ts
        /\ storage' = saveTasks(storage, ts, failing)
        /\ dom' = renderTasks(dom, ts, currentFilter)
        /\ UNCHANGED currentFilter

deleteTask(id) ==
    LET ts == SelectSeq(tasks, LAMBDA t : t.id # id)
    IN  /\ tasks' = ts
        /\ storage' = saveTasks(storage, ts, failing)
        /\ dom' = renderTasks(dom, ts, currentFilter)
        /\ UNCHANGED currentFilter

setFilter(filter) ==
    /\ currentFilter' = filter
    /\ dom' = renderTasks(dom, tasks, filter)
    /\ UNCHANGED <<tasks, storage>>

detVars == <<phase, timers, ad, dg, sd, info, lockCalls, restVars>>

\* the form's submit listener.  The browser submits only through an enabled
\* submit button (a click on it, or Enter in a field).
SubmitForm ==
    /\ phase = "ready"
    /\ "#task-form" \in dom.present
    /\ ~dom.addDisabled
    /\ \E in \in FormInputs :
          IF in.titleLen = 0
          THEN UNCHANGED <<tasks, storage, dom, currentFilter>>
          ELSE Len(tasks) < MaxTasks /\ addTask(in.titleLen, in.descLen)
    /\ polled' = ""
    /\ UNCHANGED detVars

\* the list's click listener, on a checkbox
ClickToggle ==
    /\ phase = "ready"
    /\ "#task-list" \in dom.present
    /\ \E i \in 1..Len(dom.items) : toggleTask(dom.items[i].id)
    /\ polled' = ""
    /\ UNCHANGED detVars

\* the list's click listener, on a delete button: a disabled button
\* dispatches no click
ClickDelete ==
    /\ phase = "ready"
    /\ "#task-list" \in dom.present
    /\ \E i \in 1..Len(dom.items) :
          ~dom.items[i].btnDisabled /\ deleteTask(dom.items[i].id)
    /\ polled' = ""
    /\ UNCHANGED detVars

\* a filter button's click listener
ClickFilter ==
    /\ phase = "ready"
    /\ ".task-filters" \in dom.present
    /\ ~dom.filterDisabled
    /\ \E f \in Filters : setFilter(f)
    /\ polled' = ""
    /\ UNCHANGED detVars

-----------------------------------------------------------------------------
(* External code: the console, another script *)

\* elements external code may remove; the model removes at most one
Removable == {"#task-form", ".task-filters", "#task-list"}

RemoveElement ==
    /\ phase = "ready"
    /\ dom.present = Range(PROTECTED_SELECTORS)
    /\ \E sel \in Removable :
          dom' = [dom EXCEPT !.present = @ \ {sel},
                             !.items = IF sel = "#task-list" THEN <<>> ELSE @]
    /\ polled' = ""
    /\ UNCHANGED <<tasks, currentFilter, storage, detVars>>

\* window.__selfDefendInfo.targetFn = function ...
ReplaceTargetFn ==
    /\ sd.started
    /\ info.exists
    /\ \E t \in Routines : info' = [info EXCEPT !.hasFn = TRUE, !.src = t]
    /\ polled' = ""
    /\ UNCHANGED <<phase, tasks, currentFilter, storage, dom, timers, ad, dg, sd,
                   lockCalls, restVars>>

\* window.__selfDefendInfo.targetFn = null
ClearTargetFn ==
    /\ sd.started
    /\ info.exists
    /\ info' = [info EXCEPT !.hasFn = FALSE, !.src = <<>>]
    /\ polled' = ""
    /\ UNCHANGED <<phase, tasks, currentFilter, storage, dom, timers, ad, dg, sd,
                   lockCalls, restVars>>

\* delete window.__selfDefendInfo
DeleteInfo ==
    /\ sd.started
    /\ info.exists
    /\ info' = InfoUnset
    /\ polled' = ""
    /\ UNCHANGED <<phase, tasks, currentFilter, storage, dom, timers, ad, dg, sd,
                   lockCalls, restVars>>

\* what external code writes into window.__selfDefendInfo.originalHash: 0,
\* the checksum of another routine
ExposedValues == {<<0, 0>>, simpleHash(<<98, 98>>)}

\* window.__selfDefendInfo.originalHash = ...
WriteOriginalHash ==
    /\ sd.started
    /\ info.exists
    /\ \E v \in ExposedValues : info' = [info EXCEPT !.originalHash = v]
    /\ polled' = ""
    /\ UNCHANGED <<phase, tasks, currentFilter, storage, dom, timers, ad, dg, sd,
                   lockCalls, restVars>>

\* a script that ran before DOMContentLoaded has put a value of its own in
\* window.__selfDefendInfo
PresetInfo ==
    /\ phase = "loading"
    /\ ~info.exists
    /\ \E t \in Routines :
          info' = [exists |-> TRUE, hasFn |-> TRUE, src |-> t, originalHash |-> <<>>]
    /\ polled' = ""
    /\ UNCHANGED <<phase, tasks, currentFilter, storage, dom, timers, ad, dg, sd,
                   lockCalls, restVars>>

\* localStorage.setItem starts to throw: the quota is reached, storage is denied
StorageFails ==
    /\ "setItem" \notin failing
    /\ failing' = failing \cup {"setItem"}
    /\ polled' = ""
    /\ UNCHANGED <<phase, tasks, currentFilter, storage, dom, timers, ad, dg, sd, info,
                   lockCalls, hashVars, probeVars>>

StorageRecovers ==
    /\ "setItem" \in failing
    /\ failing' = failing \ {"setItem"}
    /\ polled' = ""
    /\ UNCHANGED <<phase, tasks, currentFilter, storage, dom, timers, ad, dg, sd, info,
                   lockCalls, hashVars, probeVars>>

\* a call of lockApp starts to throw
CallbackFails ==
    /\ ~CallbackThrows(failing)
    /\ \E f \in CallbackFaults : failing' = failing \cup {f}
    /\ polled' = ""
    /\ UNCHANGED <<phase, tasks, currentFilter, storage, dom, timers, ad, dg, sd, info,
                   lockCalls, hashVars, probeVars>>

CallbackRecovers ==
    /\ CallbackThrows(failing)
    /\ failing' = failing \ CallbackFaults
    /\ polled' = ""
    /\ UNCHANGED <<phase, tasks, currentFilter, storage, dom, timers, ad, dg, sd, info,
                   lockCalls, hashVars, probeVars>>

\* something a detector's heuristic calls starts to throw
HeuristicFails ==
    /\ Cardinality(failing) < MaxFailing
    /\ \E f \in HeuristicFaults \ failing : failing' = failing \cup {f}
    /\ polled' = ""
    /\ UNCHANGED <<phase, tasks, currentFilter, storage, dom, timers, ad, dg, sd, info,
                   lockCalls, hashVars, probeVars>>

HeuristicRecovers ==
    /\ \E f \in HeuristicFaults \cap failing : failing' = failing \ {f}
    /\ polled' = ""
    /\ UNCHANGED <<phase, tasks, currentFilter, storage, dom, timers, ad, dg, sd, info,
                   lockCalls, hashVars, probeVars>>

-----------------------------------------------------------------------------
(* The detectors' timers *)

\* startDomGuard's setInterval callback
DomGuardTick ==
    /\ "dgTimer" \in timers
    /\ LET dg1 == IF ~dg.already THEN dgRunCheck(dg, dom, failing) ELSE dg
       IN  /\ dg' = dg1
           /\ timers' = AfterClear(timers, dg, dg1)
           /\ dom' = IF dg1.calls > dg.calls THEN onTamperUnder(dom, failing) ELSE dom
           /\ lockCalls' = lockCalls + Completed(dg1.calls - dg.calls, failing)
    /\ polled' = IF dg.already THEN ""
                 ELSE IF "isTampered" \in failing THEN "dg-threw" ELSE "dg"
    /\ UNCHANGED <<phase, tasks, currentFilter, storage, ad, sd, info, restVars>>

\* a poll that stores the handle anew, as startSelfDefend does
SelfDefendTickRepublish ==
    /\ "sdTimer" \in timers
    /\ LET sd1 == IF ~sd.already THEN sdRunCheck(sd, info, failing) ELSE sd
       IN  /\ sd' = sd1
           /\ timers' = AfterClear(timers, sd, sd1)
           /\ dom' = IF sd1.calls > sd.calls THEN onFailUnder(dom, failing) ELSE dom
           /\ lockCalls' = lockCalls + Completed(sd1.calls - sd.calls, failing)
    /\ info' = [exists |-> TRUE, hasFn |-> TRUE, src |-> CanaryText,
                originalHash |-> sd.originalHash]
    /\ polled' = IF sd.already THEN ""
                 ELSE IF "toString" \in failing THEN "sd-threw" ELSE "sd"
    /\ UNCHANGED <<phase, tasks, currentFilter, storage, ad, dg, restVars>>

\* startSelfDefend's setInterval callback
SelfDefendTick ==
    /\ "sdTimer" \in timers
    /\ LET sd1 == IF ~sd.already THEN sdRunCheck(sd, info, failing) ELSE sd
       IN  /\ sd' = sd1
           /\ timers' = AfterClear(timers, sd, sd1)
           /\ dom' = IF sd1.calls > sd.calls THEN onFailUnder(dom, failing) ELSE dom
           /\ lockCalls' = lockCalls + Completed(sd1.calls - sd.calls, failing)
    /\ polled' = IF sd.already THEN ""
                 ELSE IF "toString" \in failing THEN "sd-threw" ELSE "sd"
    /\ UNCHANGED <<phase, tasks, currentFilter, storage, ad, dg, info, restVars>>

\* trigEnv records, for the run of runChecks that set alreadyDetected, what
\* the window sizes and the pause measured in that run amount to: whether
\* the size condition held, whether the pause condition held
SeenAtTrigger(old, new, w, h, delta) ==
    IF new.already /\ ~old.already
    THEN [new EXCEPT !.trigEnv = <<isDevToolsOpenBySize(w, h), isDevToolsOpenByTiming(delta)>>]
    ELSE new

\* startAntiDebug, called on its own: init does not call it.  The caller's
\* onDetected records the reason; it is not lockApp.
startAntiDebug ==
    /\ ~ad.started
    /\ \E cbIsFn \in BOOLEAN, w \in SizeDiffs, h \in SizeDiffs, delta \in PauseDeltas,
          reenter \in BOOLEAN :
          LET ad0 == [AdIdle EXCEPT !.started = TRUE, !.cbIsFn = cbIsFn]
              ad1 == runChecks(ad0, w, h, delta, reenter, failing)
          IN  ad' = [SeenAtTrigger(ad0, ad1, w, h, delta) EXCEPT !.intervalId = "adTimer"]
    /\ timers' = timers \cup {"adTimer"}
    /\ polled' = ""
    /\ UNCHANGED <<phase, tasks, currentFilter, storage, dom, dg, sd, info, lockCalls,
                   restVars>>

\* the callback without its test of alreadyDetected
AntiDebugTickUnguarded ==
    /\ "adTimer" \in timers
    /\ \E w \in SizeDiffs, h \in SizeDiffs, delta \in PauseDeltas, reenter \in BOOLEAN :
          LET ad1 == runChecks(ad, w, h, delta, reenter, failing)
          IN  /\ ad' = SeenAtTrigger(ad, ad1, w, h, delta)
              /\ timers' = AfterClear(timers, ad, ad1)
              /\ polled' = IF runChecksThrows(w, h, failing) THEN "ad-threw" ELSE "ad"
    /\ UNCHANGED <<phase, tasks, currentFilter, storage, dom, dg, sd, info, lockCalls,
                   restVars>>

\* startAntiDebug's setInterval callback
AntiDebugTick ==
    /\ "adTimer" \in timers
    /\ \E w \in SizeDiffs, h \in SizeDiffs, delta \in PauseDeltas, reenter \in BOOLEAN :
          LET ad1 == IF ~ad.already THEN runChecks(ad, w, h, delta, reenter, failing) ELSE ad
          IN  /\ ad' = SeenAtTrigger(ad, ad1, w, h, delta)
              /\ timers' = AfterClear(timers, ad, ad1)
              /\ polled' = IF ad.already THEN ""
                           ELSE IF runChecksThrows(w, h, failing) THEN "ad-threw" ELSE "ad"
    /\ UNCHANGED <<phase, tasks, currentFilter, storage, dom, dg, sd, info, lockCalls,
                   restVars>>

-----------------------------------------------------------------------------
(* The application as init wires it: DomGuard and SelfDefend *)

Next ==
    \/ init
    \/ SubmitForm
    \/ ClickToggle
    \/ ClickDelete
    \/ ClickFilter
    \/ RemoveElement
    \/ ReplaceTargetFn
    \/ ClearTargetFn
    \/ DeleteInfo
    \/ DomGuardTick
    \/ SelfDefendTick

Spec == Init /\ [][Next]_vars

-----------------------------------------------------------------------------
(* The three detectors side by side: the two init starts, and AntiDebug     *)
(* started by a caller of its own.  The user leaves the task list alone.    *)

NextDetectors ==
    \/ PresetInfo
    \/ init
    \/ startAntiDebug
    \/ AntiDebugTick
    \/ DomGuardTick
    \/ SelfDefendTick
    \/ RemoveElement
    \/ ReplaceTargetFn
    \/ ClearTargetFn
    \/ DeleteInfo

\* the visit starts with at most one stored task
InitDetectors == Init /\ Len(storage.val) <= 1

SpecDetectors == InitDetectors /\ [][NextDetectors]_vars

-----------------------------------------------------------------------------
(* simpleHash on its own: a text over the alphabet is drawn, then hashed *)

InitHash ==
    /\ phase = "loading"
    /\ tasks = <<>>
    /\ currentFilter = "all"
    /\ storage = StoredArray(<<>>)
    /\ dom = PageInit
    /\ timers = {}
    /\ ad = AdIdle
    /\ dg = DgIdle
    /\ sd = SdIdle
    /\ info = InfoUnset
    /\ lockCalls = 0
    /\ polled = ""
    /\ failing = {}
    /\ hashIn \in TextsUpTo(MaxLen)
    /\ hashOut = <<>>
    /\ ProbeIdle

ApplyHash ==
    /\ hashOut = <<>>
    /\ hashOut' = simpleHash(hashIn)
    /\ UNCHANGED <<hashIn, probeVars, appVars>>

NextHash == ApplyHash

SpecHash == InitHash /\ [][NextHash]_vars

-----------------------------------------------------------------------------
(* The detectors while what their heuristics call may throw.  The visit     *)
(* starts with an empty stored list.                                        *)

NextFaults ==
    \/ init
    \/ startAntiDebug
    \/ AntiDebugTick
    \/ DomGuardTick
    \/ SelfDefendTick
    \/ RemoveElement
    \/ ReplaceTargetFn
    \/ HeuristicFails
    \/ HeuristicRecovers

InitFaults == Init /\ storage = StoredArray(<<>>)

SpecFaults == InitFaults /\ [][NextFaults]_vars

-----------------------------------------------------------------------------
(* The detectors while the callbacks they were handed may throw.  The visit *)
(* starts with an empty stored list.                                        *)

NextCallback ==
    \/ init
    \/ startAntiDebug
    \/ AntiDebugTick
    \/ DomGuardTick
    \/ SelfDefendTick
    \/ RemoveElement
    \/ ReplaceTargetFn
    \/ CallbackFails
    \/ CallbackRecovers

SpecCallback == InitFaults /\ [][NextCallback]_vars

-----------------------------------------------------------------------------
(* The user at work under DomGuard alone: nothing external touches the     *)
(* page or the handle, SelfDefend's poll finds nothing and is left out.    *)

NextDomGuard ==
    \/ init
    \/ SubmitForm
    \/ ClickToggle
    \/ ClickDelete
    \/ ClickFilter
    \/ DomGuardTick

SpecDomGuard == Init /\ [][NextDomGuard]_vars

-----------------------------------------------------------------------------
(* SelfDefend and everything external code can do to its handle.  The visit *)
(* starts with an empty stored list.                                        *)

NextHandle ==
    \/ init
    \/ SelfDefendTick
    \/ DomGuardTick
    \/ RemoveElement
    \/ ReplaceTargetFn
    \/ ClearTargetFn
    \/ DeleteInfo
    \/ WriteOriginalHash

SpecHandle == InitFaults /\ [][NextHandle]_vars

-----------------------------------------------------------------------------
(* The task list and localStorage while setItem may throw *)

NextStorage ==
    \/ init
    \/ SubmitForm
    \/ ClickToggle
    \/ ClickDelete
    \/ ClickFilter
    \/ StorageFails
    \/ StorageRecovers

SpecStorage == Init /\ [][NextStorage]_vars

-----------------------------------------------------------------------------
(* Functions on their own: arguments are drawn, then the function is called *)

\* no script has run, nothing throws, no harness has been used
AtRest ==
    /\ phase = "loading"
    /\ tasks = <<>>
    /\ currentFilter = "all"
    /\ storage = StoredArray(<<>>)
    /\ dom = PageInit
    /\ timers = {}
    /\ ad = AdIdle
    /\ dg = DgIdle
    /\ sd = SdIdle
    /\ info = InfoUnset
    /\ lockCalls = 0
    /\ polled = ""
    /\ failing = {}
    /\ HashIdle

\* the page with a task list whose text is n characters long
PageWithText(n) ==
    [PageInit EXCEPT !.items =
        IF n = 0 THEN <<>>
        ELSE <<[id |-> 1, completed |-> FALSE, textLen |-> n, btnDisabled |-> FALSE]>>]

\* isTampered through runCheck: #task-list held textLength characters when
\* the snapshot was taken and holds currentTextLength at the poll
InitTamper ==
    /\ AtRest
    /\ probeIn \in [textLength : TextLens, currentTextLength : TextLens]
    /\ probeOut = <<>>

ApplyIsTampered ==
    /\ probeOut = <<>>
    /\ LET dg0 == [DgIdle EXCEPT !.started = TRUE,
                                 !.snapshot = snapshotDom(PageWithText(probeIn.textLength))]
       IN  probeOut' = <<dgRunCheck(dg0, PageWithText(probeIn.currentTextLength), failing)>>
    /\ UNCHANGED <<probeIn, hashVars, appVars>>

NextTamper == ApplyIsTampered

SpecTamper == InitTamper /\ [][NextTamper]_vars

\* the page without the element sel
Without(d, sel) ==
    [d EXCEPT !.present = @ \ {sel},
              !.items = IF sel = "#task-list" THEN <<>> ELSE @]

\* DomGuard started on a page that lacks one protected element, then a poll:
\* the element is still absent, or is there now; the task list holds
\* textLength characters whenever it is there
InitAbsent ==
    /\ AtRest
    /\ probeIn \in [selector : Removable, textLength : TextLens, present : BOOLEAN]
    /\ probeOut = <<>>

ApplyAbsentAtStart ==
    /\ probeOut = <<>>
    /\ LET full == PageWithText(probeIn.textLength)
           dg0  == startDomGuard([selectors |-> <<>>], Without(full, probeIn.selector), failing)
           page == IF probeIn.present THEN full ELSE Without(full, probeIn.selector)
       IN  probeOut' = <<dgRunCheck(dg0, page, failing)>>
    /\ UNCHANGED <<probeIn, hashVars, appVars>>

NextAbsent == ApplyAbsentAtStart

SpecAbsent == InitAbsent /\ [][NextAbsent]_vars

\* isDevToolsOpenBySize on drawn differences
SizeProbes ==
    {50, 200} \cup ((SIZE_THRESHOLD - SizeMargin)..(SIZE_THRESHOLD + SizeMargin))

InitSize ==
    /\ AtRest
    /\ probeIn \in [widthDiff : SizeProbes, heightDiff : SizeProbes]
    /\ probeOut = <<>>

ApplySizeCheck ==
    /\ probeOut = <<>>
    /\ probeOut' = <<isDevToolsOpenBySize(probeIn.widthDiff, probeIn.heightDiff)>>
    /\ UNCHANGED <<probeIn, hashVars, appVars>>

NextSize == ApplySizeCheck

SpecSize == InitSize /\ [][NextSize]_vars

\* The loop of simpleHash on the last characters of a text.  The running
\* value is 0 (the text starts here) or what a long prefix left: a value a
\* little below 2^32.
RunningValues == {<<0, 0>>} \cup {<<HalfWord - 1, HalfWord - g>> : g \in WrapGaps}

InitSum ==
    /\ AtRest
    /\ probeIn \in [hash : RunningValues, text : TextsUpTo(MaxLen)]
    /\ probeOut = <<>>

ApplyHashLoop ==
    /\ probeOut = <<>>
    /\ probeOut' = <<IF probeIn.hash = <<0, 0>>
                     THEN simpleHash(probeIn.text)
                     ELSE HashFrom(probeIn.hash, probeIn.text, Len(probeIn.text))>>
    /\ UNCHANGED <<probeIn, hashVars, appVars>>

NextSum == ApplyHashLoop

SpecSum == InitSum /\ [][NextSum]_vars

\* startDomGuard on a drawn config
Selectable == Range(PROTECTED_SELECTORS) \cup {"#security-message"}

\* the lists of up to n different selectors
SelectorLists(n) ==
    UNION {{l \in [1..k -> Selectable] : \A i, j \in 1..k : l[i] = l[j] => i = j} : k \in 0..n}

InitConfig ==
    /\ AtRest
    /\ probeIn \in [selectors : SelectorLists(MaxSelectors)]
    /\ probeOut = <<>>

ApplyStartDomGuard ==
    /\ probeOut = <<>>
    /\ probeOut' = <<startDomGuard(probeIn, PageInit, failing)>>
    /\ UNCHANGED <<probeIn, hashVars, appVars>>

NextConfig == ApplyStartDomGuard

SpecConfig == InitConfig /\ [][NextConfig]_vars

-----------------------------------------------------------------------------
(* Properties *)

Locked == lockCalls > 0

\* C1: over any sequence of detector callbacks, lockApp is invoked at most
\* once (every callback after the first is a no-op).
C1_LockAppOnce == lockCalls <= 1

\* C2: once a security message is shown, no later detector firing replaces
\* it: the message stays that of the source that fired first.
C2_FirstMessageKept == [][dom.message # "" => dom'.message = dom.message]_vars

\* C3: a detection delivered by any one of the three detectors leaves the
\* application locked.
C3_AnyDetectorLocks ==
    (ad.calls > 0 \/ dg.calls > 0 \/ sd.calls > 0) => Locked

AllButtonsDisabled(d) ==
    /\ "#task-form" \in d.present => d.addDisabled
    /\ ".task-filters" \in d.present => d.filterDisabled
    /\ \A i \in 1..Len(d.items) : d.items[i].btnDisabled

\* C4: once lockApp has run, every button present in the page is disabled in
\* every later state.
C4_LockedButtonsDisabled == Locked => AllButtonsDisabled(dom)

\* C5: once the application is locked, no step changes the in-memory task
\* list, the current filter or the stored task list.
C5_LockedFrame ==
    [][Locked => (tasks' = tasks /\ currentFilter' = currentFilter /\ storage' = storage)]_vars

\* C6: each detector invokes its callback at most once, and exactly once if
\* its trigger routine has been invoked at least once (with a callback
\* registered), also when the trigger is re-entered from the callback.
C6_CallbackOnce ==
    /\ ad.calls <= 1 /\ dg.calls <= 1 /\ sd.calls <= 1
    /\ (ad.trig >= 1 /\ ad.cbIsFn) => ad.calls = 1
    /\ dg.trig >= 1 => dg.calls = 1
    /\ sd.trig >= 1 => sd.calls = 1

\* C6 witness: AntiDebug's trigger ran twice (re-entered from the callback)
\* and the callback ran once.
C6_Witness == ad.trig = 2 /\ ad.calls = 1

TimerCancelled(d, id) == d.intervalId = NULL /\ id \notin timers

\* C7: whenever a detector's already-triggered flag is true, its timer is
\* cancelled and its timer handle is null.
C7_TriggeredTimerCancelled ==
    /\ ad.already => TimerCancelled(ad, "adTimer")
    /\ dg.already => TimerCancelled(dg, "dgTimer")
    /\ sd.already => TimerCancelled(sd, "sdTimer")

C9_PollReadsHandle ==
    [][(/\ polled' = "sd"
        /\ ~sd.already
        /\ info.exists /\ info.hasFn
        /\ simpleHash(info.src) # sd.originalHash)
       => (/\ sd'.already
           /\ sd'.calls = sd.calls + 1
           /\ sd'.reason = "function-source-changed")]_vars

\* C9 witness: onFail has been invoked while the handle holds a routine other
\* than the canary.
C9_Witness ==
    /\ sd.calls = 1
    /\ sd.reason = "function-source-changed"
    /\ info.exists /\ info.hasFn
    /\ simpleHash(info.src) # sd.originalHash

\* C10 as stated: every text different from the canary's has a checksum
\* different from the canary's.
C10_DifferentTextDifferentHash ==
    (hashOut # <<>> /\ hashIn # CanaryText) => hashOut # simpleHash(CanaryText)

\* t is the canary's text with exactly one character replaced
OneCharReplaced(t) ==
    /\ Len(t) = Len(CanaryText)
    /\ Cardinality({i \in 1..Len(t) : t[i] # CanaryText[i]}) = 1

\* C10 amended: a text that is the canary's with exactly one character
\* replaced has a checksum different from the canary's.
C10_OneCharReplacedDetected ==
    (hashOut # <<>> /\ OneCharReplaced(hashIn)) => hashOut # simpleHash(CanaryText)

\* C10 witness: such a text has been hashed.
C10_Witness == hashOut # <<>> /\ OneCharReplaced(hashIn)

\* C11: for an element that existed when the snapshot was taken and still
\* exists, the poll reports tamper exactly when
\* max(cur, orig) / max(1, min(cur, orig)) exceeds 3, for every pair of
\* lengths, 0 included; recorded 100 and current 50 is no tamper, recorded
\* 100 and current 10 is tamper, and the reason is "snapshot-mismatch".
C11_RatioRule ==
    probeOut # <<>> =>
        LET orig == probeIn.textLength
            cur  == probeIn.currentTextLength
            out  == probeOut[1]
        IN  /\ out.already <=> (Max(cur, orig) > 3 * Max(1, Min(cur, orig)))
            /\ out.already => (out.calls = 1 /\ out.reason = "snapshot-mismatch")
            /\ (orig = 100 /\ cur = 50) => ~out.already
            /\ (orig = 100 /\ cur = 10) => out.already

\* C11 witness: recorded 100, current 10, reported with "snapshot-mismatch".
C11_Witness ==
    /\ probeOut # <<>>
    /\ probeIn.textLength = 100 /\ probeIn.currentTextLength = 10
    /\ probeOut[1].calls = 1 /\ probeOut[1].reason = "snapshot-mismatch"

\* some element the snapshot recorded as existing is missing from the page
SomeElementGone(snapshot, d) ==
    \E i \in 1..Len(snapshot) : snapshot[i].exists /\ snapshot[i].selector \notin d.present

\* C12: a poll of a DomGuard that has not triggered, taken while an element
\* that existed at snapshot time is absent, invokes onTamper in that poll
\* with reason "snapshot-mismatch", whatever the text lengths are.
C12_AbsentElementTampers ==
    [][(/\ polled' = "dg"
        /\ ~dg.already
        /\ SomeElementGone(dg.snapshot, dom))
       => (/\ dg'.already
           /\ dg'.calls = dg.calls + 1
           /\ dg'.reason = "snapshot-mismatch")]_vars

\* C12 witness: onTamper has been invoked on a page that lacks an element of
\* the snapshot.
C12_Witness ==
    /\ dg.calls = 1
    /\ dg.reason = "snapshot-mismatch"
    /\ SomeElementGone(dg.snapshot, dom)

\* the latch flag and the timer handle of a detector are what they were, and
\* neither its trigger routine nor its callback has run
LatchKept(old, new) ==
    /\ new.already = old.already
    /\ new.intervalId = old.intervalId
    /\ new.trig = old.trig
    /\ new.calls = old.calls

\* C13: a poll in which the heuristic evaluation throws produces no
\* detection and leaves the detector's latch flag and timer handle as they
\* were, and the detector's timer stays live, so that later ticks run the
\* check again.
C13_ThrowingPollHarmless ==
    [][/\ polled' = "ad-threw" =>
            (LatchKept(ad, ad') /\ ~ad'.already /\ ad'.intervalId \in timers')
       /\ polled' = "dg-threw" =>
            (/\ LatchKept(dg, dg') /\ ~dg'.already /\ dg'.intervalId \in timers'
             /\ dom' = dom /\ lockCalls' = lockCalls)
       /\ polled' = "sd-threw" =>
            (/\ LatchKept(sd, sd') /\ ~sd'.already /\ sd'.intervalId \in timers'
             /\ dom' = dom /\ lockCalls' = lockCalls)]_vars

\* C13 witness: each detector has logged an error of its heuristic
\* evaluation and has delivered a detection in a later poll.
C13_Witness ==
    /\ ad.threw /\ ad.calls = 1
    /\ dg.threw /\ dg.calls = 1
    /\ sd.threw /\ sd.calls = 1

\* C14: AntiDebug's first positive heuristic wins.  When the size condition
\* held in the triggering run the reason is "window-size-heuristic" and the
\* timing heuristic was not evaluated in that run; the reason is
\* "timing-debugger-heuristic" only if the size condition did not hold in
\* that run.
C14_FirstPositiveWins ==
    ad.calls >= 1 =>
        /\ ad.reason \in {"window-size-heuristic", "timing-debugger-heuristic"}
        /\ ad.trigEnv[1] => (ad.reason = "window-size-heuristic" /\ ~ad.timingRun)
        /\ ad.reason = "timing-debugger-heuristic" =>
              (~ad.trigEnv[1] /\ ad.trigEnv[2] /\ ad.timingRun)

\* C14 witness: both conditions held in the triggering run and the reason is
\* that of the size heuristic.
C14_Witness ==
    /\ ad.calls = 1
    /\ ad.trigEnv = <<TRUE, TRUE>>
    /\ ad.reason = "window-size-heuristic"

\* C15: the size heuristic returns true exactly when the width difference
\* or the height difference is strictly greater than 160; 200 gives true, 50
\* gives false and 160 gives false.
C15_SizeRule ==
    probeOut # <<>> =>
        LET w == probeIn.widthDiff
            h == probeIn.heightDiff
        IN  /\ probeOut[1] <=> (w > 160 \/ h > 160)
            /\ (w = 200 \/ h = 200) => probeOut[1]
            /\ (w \in {50, 160} /\ h \in {50, 160}) => ~probeOut[1]

\* C15 witness: one difference is 200, the other exactly 160, and the
\* heuristic returned true.
C15_Witness ==
    /\ probeOut = <<TRUE>>
    /\ probeIn.widthDiff = 160 /\ probeIn.heightDiff = 200

\* latch flag and timer handle of a detector as they were
SameLatch(old, new) == new.already = old.already /\ new.intervalId = old.intervalId

\* C16: a step in which one detector triggers leaves the latch flags and the
\* timer handles of the other two as they were and cancels no timer but its
\* own; a started detector that has not triggered has its timer live.
C16_TriggerFrame ==
    [][/\ (ad'.already /\ ~ad.already) =>
            (/\ SameLatch(dg, dg') /\ SameLatch(sd, sd')
             /\ timers' \ {"adTimer"} = timers \ {"adTimer"})
       /\ (dg'.already /\ ~dg.already) =>
            (/\ SameLatch(ad, ad') /\ SameLatch(sd, sd')
             /\ timers' \ {"dgTimer"} = timers \ {"dgTimer"})
       /\ (sd'.already /\ ~sd.already) =>
            (/\ SameLatch(ad, ad') /\ SameLatch(dg, dg')
             /\ timers' \ {"sdTimer"} = timers \ {"sdTimer"})
       /\ (ad'.started /\ ~ad'.already) => "adTimer" \in timers'
       /\ (dg'.started /\ ~dg'.already) => "dgTimer" \in timers'
       /\ (sd'.started /\ ~sd'.already) => "sdTimer" \in timers']_vars

\* C16 witness: all three detectors have triggered, each one once.
C16_Witness == ad.calls = 1 /\ dg.calls = 1 /\ sd.calls = 1

\* a detector's poll, or AntiDebug's start, changes the page only by running
\* lockApp, the callback app.js passed
PageOnlyThroughCallback ==
    (polled' # "" \/ ad' # ad) =>
        \/ dom' = dom
        \/ /\ lockCalls' = lockCalls + 1
           /\ dom' \in {lockApp(dom, MsgTamper), lockApp(dom, MsgIntegrity)}

\* C17 as stated: no detector operation, start included, writes the canary
\* handle or the page.
C17_DetectorsNeverWrite ==
    [][/\ (ad' # ad \/ dg' # dg \/ sd' # sd \/ polled' # "") => info' = info
       /\ PageOnlyThroughCallback]_vars

\* C17 amended: once SelfDefend has started, no detector operation writes
\* the canary handle; startSelfDefend itself stores the canary and the
\* baseline in the handle, whatever the handle held; a detector's poll
\* changes the page only through the callback app.js passed.
C17_DetectorsWriteOnlyAtStart ==
    [][/\ (sd.started /\ (ad' # ad \/ dg' # dg \/ sd' # sd \/ polled' # "")) => info' = info
       /\ (~sd.started /\ sd'.started) =>
            (/\ info'.exists /\ info'.hasFn
             /\ info'.src = CanaryText
             /\ info'.originalHash = sd'.originalHash)
       /\ PageOnlyThroughCallback]_vars

\* C17 witness: SelfDefend's poll has just run and the handle still holds
\* the routine external code stored in it.
C17_Witness ==
    /\ polled = "sd"
    /\ sd.already
    /\ info.exists /\ info.hasFn /\ info.src # CanaryText

\* C18: the snapshot DomGuard takes at start lists exactly the selectors of
\* the config it was started with, in their order.
C18_SnapshotIsSupplied ==
    probeOut # <<>> =>
        [i \in 1..Len(probeOut[1].snapshot) |-> probeOut[1].snapshot[i].selector]
            = probeIn.selectors

C20_MonitoringHalts ==
    [][/\ ad.already => (ad'.already /\ polled' \notin {"ad", "ad-threw"})
       /\ dg.already => (dg'.already /\ polled' \notin {"dg", "dg-threw"})
       /\ sd.already => (sd'.already /\ polled' \notin {"sd", "sd-threw"})]_vars

\* C20 witness: all three detectors have triggered and AntiDebug's timer
\* still ticks.
C20_Witness ==
    /\ ad.already /\ dg.already /\ sd.already
    /\ "adTimer" \in timers

\* C21: simpleHash is the sum of the character codes modulo 2^32: 0 for the
\* empty text, always below 2^32, and a running value that passes 2^32
\* wraps around.  With the 32-bit value as <<high, low>>: both halves are
\* below 2^16, and the result is the running value plus the sum of the
\* codes, added at once, less 2^32 when that passes 2^32.
C21_SumModulo ==
    probeOut # <<>> =>
        LET sum   == SumSeq(probeIn.text)
            low   == probeIn.hash[2] + sum
            carry == low \div 65536
            out   == probeOut[1]
        IN  /\ out[1] \in 0..65535 /\ out[2] \in 0..65535
            /\ out[2] = low % 65536
            /\ out[1] = (probeIn.hash[1] + carry) % 65536
            /\ (probeIn.hash = <<0, 0>> /\ probeIn.text = <<>>) => out = <<0, 0>>
            /\ probeIn.hash = <<0, 0>> => (out = <<0, sum>> /\ out = simpleHash(probeIn.text))

\* C21 witness: the running value stood 98 below 2^32 and the character "b"
\* (98) brought it to 0.
C21_Witness ==
    /\ probeOut = << <<0, 0>> >>
    /\ probeIn.hash = <<65535, 65438>>
    /\ probeIn.text = <<98>>

\* the handle is gone, or its targetFn is falsy
HandleEmpty(inf) == ~inf.exists \/ ~inf.hasFn

\* C22: while the handle is deleted or its targetFn is falsy, a SelfDefend
\* poll falls back to the canary, finds the baseline checksum and does not
\* invoke onFail.
C22_EmptyHandleNoFail ==
    [][(polled' = "sd" /\ HandleEmpty(info)) =>
           (/\ simpleHash(CurrentSource(info)) = sd.originalHash
            /\ ~sd'.already
            /\ sd'.calls = sd.calls
            /\ lockCalls' = lockCalls)]_vars

\* C22 witness: a poll has just run on a deleted handle and SelfDefend has
\* not triggered.
C22_Witness == polled = "sd" /\ ~info.exists /\ ~sd.already /\ sd.calls = 0

\* C23: the baseline is fixed at start, and what the handle's originalHash
\* field holds has no part in a poll: the poll ends as it would with any
\* other value in that field.
C23_ExposedBaselineIgnored ==
    [][/\ sd.started => sd'.originalHash = sd.originalHash
       /\ (polled' = "sd" /\ info.exists) =>
             \A v \in ExposedValues \cup {sd.originalHash} :
                 sd' = sdRunCheck(sd, [info EXCEPT !.originalHash = v], failing)]_vars

\* C23 witness: a poll has just run while the field held another value than
\* the baseline and the handle held the canary; SelfDefend has not triggered.
C23_Witness ==
    /\ polled = "sd"
    /\ info.exists /\ info.hasFn /\ info.src = CanaryText
    /\ info.originalHash # sd.originalHash
    /\ ~sd.already

\* C24: an element that was absent when DomGuard took its snapshot causes no
\* tamper, whether it is there at the poll, with any text length, or still
\* absent: with the rest of the page as it was, the poll reports nothing.
C24_AbsentAtStartIgnored ==
    probeOut # <<>> =>
        /\ \E i \in 1..Len(probeOut[1].snapshot) :
              /\ probeOut[1].snapshot[i].selector = probeIn.selector
              /\ ~probeOut[1].snapshot[i].exists
        /\ ~probeOut[1].already
        /\ probeOut[1].calls = 0

\* C24 witness: the task list was absent at the snapshot and holds 100
\* characters at the poll, which reported nothing.
C24_Witness ==
    /\ probeOut # <<>>
    /\ probeIn.selector = "#task-list" /\ probeIn.present /\ probeIn.textLength = 100
    /\ ~probeOut[1].already

\* the snapshot recorded the task list with at least n characters of text
ListRecordedWith(snapshot, n) ==
    \E i \in 1..Len(snapshot) :
        /\ snapshot[i].selector = "#task-list"
        /\ snapshot[i].exists
        /\ snapshot[i].textLength >= n

\* C25: when the snapshot recorded a task list with text of 4 characters or
\* more and the rendered list is empty at a DomGuard poll (the filter was
\* changed, or tasks were deleted), that poll reports tamper with reason
\* "snapshot-mismatch" and lockApp runs.
C25_EmptiedListLocks ==
    [][(/\ polled' = "dg"
        /\ ListRecordedWith(dg.snapshot, 4)
        /\ "#task-list" \in dom.present
        /\ TextLength(dom, "#task-list") = 0)
       => (/\ dg'.already
           /\ dg'.calls = dg.calls + 1
           /\ dg'.reason = "snapshot-mismatch"
           /\ lockCalls' = lockCalls + 1
           /\ dom' = lockApp(dom, MsgTamper))]_vars

\* C25 witness: DomGuard has locked the application on a page whose list a
\* filter emptied while the tasks are still in memory.
C25_Witness ==
    /\ dg.calls = 1
    /\ lockCalls = 1
    /\ dom.message = MsgTamper
    /\ tasks # <<>>
    /\ currentFilter # "all"
    /\ dom.items = <<>>

\* a poll in which the detector's callback was invoked and threw: the flag
\* is set, the timer is cancelled, the error was caught and logged
LatchedDespiteThrow(old, new, id) ==
    (new.calls = old.calls + 1 /\ CallbackThrows(failing)) =>
        (/\ new.already
         /\ new.threw
         /\ new.intervalId = NULL
         /\ id \notin timers')

\* C26: when a detector's callback throws in a poll, the poll catches the
\* exception with the latch already set and the timer cancelled; the
\* callback is not invoked again, and the lock it left unfinished is not
\* taken up again by that detector: lockApp has not run to its end, buttons
\* that were enabled stay enabled, and any later run of lockApp is another
\* detector's.
C26_ThrowingCallbackNotRetried ==
    [][/\ polled' = "ad" => LatchedDespiteThrow(ad, ad', "adTimer")
       /\ polled' = "dg" =>
             (/\ LatchedDespiteThrow(dg, dg', "dgTimer")
              /\ (dg'.calls = dg.calls + 1 /\ CallbackThrows(failing)) =>
                    (lockCalls' = lockCalls /\ (~AllButtonsDisabled(dom) => ~AllButtonsDisabled(dom'))))
       /\ polled' = "sd" =>
             (/\ LatchedDespiteThrow(sd, sd', "sdTimer")
              /\ (sd'.calls = sd.calls + 1 /\ CallbackThrows(failing)) =>
                    (lockCalls' = lockCalls /\ (~AllButtonsDisabled(dom) => ~AllButtonsDisabled(dom'))))
       /\ ad.already => ad'.calls = ad.calls
       /\ dg.already => (dg'.calls = dg.calls /\ polled' # "dg")
       /\ sd.already => (sd'.calls = sd.calls /\ polled' # "sd")
       /\ (dg.already /\ lockCalls' # lockCalls) => sd'.calls = sd.calls + 1
       /\ (sd.already /\ lockCalls' # lockCalls) => dg'.calls = dg.calls + 1]_vars

\* C26 witness: DomGuard's callback was invoked once and threw, the callback
\* works again, DomGuard's timer is gone and the page is not locked.
C26_Witness ==
    /\ dg.calls = 1 /\ dg.threw /\ dg.already
    /\ ~CallbackThrows(failing)
    /\ "dgTimer" \notin timers
    /\ lockCalls = 0
    /\ ~dom.addDisabled

=============================================================================
